---- MODULE Spec2Model ----
(***************************************************************************)
(* A model of the multilayer perceptron engine of nn.py: layers, network   *)
(* construction, forward inference and the backpropagation training step.  *)
(*                                                                         *)
(* Numbers: numpy computes in IEEE doubles; the model computes in exact    *)
(* rationals <<n, d>> (d > 0, lowest terms), so rounding is not modelled.  *)
(* Arrays: a 2-D array is a sequence of rows, each a sequence of           *)
(* rationals, with at least one row and one column.  An operation that     *)
(* numpy refuses (a shape mismatch) yields Err.                            *)
(* The activation and loss functions built on exp, tanh and arctan are     *)
(* outside the rationals and are not modelled.                             *)
(***************************************************************************)
EXTENDS Integers, Sequences, FiniteSets, TLC

\* -------------------------------------------------------------- bounds
\* Longest layer list handed to NeuralNetwork.
MaxLayers == 2
\* Most train calls in one behaviour.
MaxTrains == 2
\* forward_pass and train start, and a concurrent train call reads a layer,
\* only while every parameter's numerator and denominator are at most this
\* large (keeps the exact arithmetic within the integers of the checker).
ParamCap == 20

\* --------------------------------------------------------- rationals
Abs(n) == IF n < 0 THEN -n ELSE n

RECURSIVE GCD(_, _)
GCD(a, b) == IF b = 0 THEN a ELSE GCD(b, a % b)

Norm(n, d) == IF n = 0 THEN <<0, 1>>
              ELSE LET g == GCD(Abs(n), d) IN <<n \div g, d \div g>>

RAdd(p, q) == LET g == GCD(p[2], q[2])
                  l1 == q[2] \div g
                  l2 == p[2] \div g
              IN Norm(p[1] * l1 + q[1] * l2, p[2] * l1)

RNeg(p) == <<-p[1], p[2]>>

RSub(p, q) == RAdd(p, RNeg(q))

RMul(p, q) == IF p[1] = 0 \/ q[1] = 0 THEN <<0, 1>>
              ELSE LET g1 == GCD(Abs(p[1]), q[2])
                       g2 == GCD(Abs(q[1]), p[2])
                   IN <<(p[1] \div g1) * (q[1] \div g2),
                        (p[2] \div g2) * (q[2] \div g1)>>

\* p / k for an integer k > 0.
RDivInt(p, k) == RMul(p, <<1, k>>)

RLess(p, q) == RSub(p, q)[1] < 0

RMax(p, q) == IF RLess(p, q) THEN q ELSE p

\* ------------------------------------------------------------ arrays
Err == <<>>

Rows(A) == Len(A)
Cols(A) == Len(A[1])
Size(A) == Rows(A) * Cols(A)

\* One broadcast dimension; 0 when the two do not broadcast.
BDim(m, n) == IF m = n THEN m ELSE IF m = 1 THEN n ELSE IF n = 1 THEN m ELSE 0

\* Entry (i, j) of A stretched to a broadcast shape.
At(A, i, j) == A[IF Rows(A) = 1 THEN 1 ELSE i][IF Cols(A) = 1 THEN 1 ELSE j]

ElemOp(op, p, q) ==
    IF op = "+" THEN RAdd(p, q) ELSE IF op = "-" THEN RSub(p, q) ELSE RMul(p, q)

\* An elementwise binary operation with numpy's broadcasting.
EW(op, A, B) ==
    IF A = Err \/ B = Err THEN Err
    ELSE LET r == BDim(Rows(A), Rows(B))
             c == BDim(Cols(A), Cols(B))
         IN IF r = 0 \/ c = 0 THEN Err
            ELSE [i \in 1..r |-> [j \in 1..c |-> ElemOp(op, At(A, i, j), At(B, i, j))]]

Add(A, B) == EW("+", A, B)
Sub(A, B) == EW("-", A, B)
Mul(A, B) == EW("*", A, B)

\* A scalar times an array.
Scale(r, A) ==
    IF A = Err THEN Err
    ELSE [i \in 1..Rows(A) |-> [j \in 1..Cols(A) |-> RMul(r, A[i][j])]]

Transpose(A) ==
    IF A = Err THEN Err
    ELSE [j \in 1..Cols(A) |-> [i \in 1..Rows(A) |-> A[i][j]]]

RECURSIVE DotSum(_, _, _, _, _)
DotSum(A, B, i, j, k) ==
    IF k = 0 THEN <<0, 1>>
    ELSE RAdd(DotSum(A, B, i, j, k - 1), RMul(A[i][k], B[k][j]))

\* np.dot of two 2-D arrays.
Dot(A, B) ==
    IF A = Err \/ B = Err THEN Err
    ELSE IF Cols(A) # Rows(B) THEN Err
    ELSE [i \in 1..Rows(A) |-> [j \in 1..Cols(B) |-> DotSum(A, B, i, j, Cols(A))]]

\* Mutant: the difference is computed and dropped; A stays as it was.
ISubDropped(A, B) ==
    IF A = Err \/ B = Err THEN Err
    ELSE IF BDim(Rows(A), Rows(B)) # Rows(A) \/ BDim(Cols(A), Cols(B)) # Cols(A)
         THEN Err
    ELSE A

\* A -= B: B must broadcast to the shape A already has.
ISub(A, B) ==
    IF A = Err \/ B = Err THEN Err
    ELSE IF BDim(Rows(A), Rows(B)) # Rows(A) \/ BDim(Cols(A), Cols(B)) # Cols(A)
         THEN Err
    ELSE Sub(A, B)

RECURSIVE SumRow(_, _)
SumRow(row, k) == IF k = 0 THEN <<0, 1>> ELSE RAdd(SumRow(row, k - 1), row[k])

RECURSIVE SumAll(_, _)
SumAll(A, i) == IF i = 0 THEN <<0, 1>>
                ELSE RAdd(SumAll(A, i - 1), SumRow(A[i], Len(A[i])))

\* ------------------------------------------------------- activations
IdAct == [kind |-> "Id", alpha |-> <<0, 1>>]
LeakyReLU(a) == [kind |-> "LeakyReLU", alpha |-> a]
ReLU == LeakyReLU(<<0, 1>>)

IdF(x) == x

\* np.ones(x.shape)
IdDf(x) ==
    IF x = Err THEN Err
    ELSE [i \in 1..Rows(x) |-> [j \in 1..Cols(x) |-> <<1, 1>>]]

\* np.maximum(x, x*self.alpha)
LeakyF(alpha, x) ==
    IF x = Err THEN Err
    ELSE [i \in 1..Rows(x) |-> [j \in 1..Cols(x) |->
             RMax(x[i][j], RMul(x[i][j], alpha))]]

\* np.maximum(x > 0, alpha): the comparison is the number 1 or 0.
LeakyDfElem(alpha, e) == RMax(IF RLess(<<0, 1>>, e) THEN <<1, 1>> ELSE <<0, 1>>, alpha)

LeakyDf(alpha, x) ==
    IF x = Err THEN Err
    ELSE [i \in 1..Rows(x) |-> [j \in 1..Cols(x) |-> LeakyDfElem(alpha, x[i][j])]]

ActF(act, x) == IF act.kind = "Id" THEN IdF(x) ELSE LeakyF(act.alpha, x)

ActDf(act, x) == IF act.kind = "Id" THEN IdDf(x) ELSE LeakyDf(act.alpha, x)

\* -------------------------------------------------------------- loss
\* np.mean((values - expected)**2); Err when the shapes do not broadcast.
MSELossValue(values, expected) ==
    LET d == Sub(values, expected)
    IN IF d = Err THEN Err
       ELSE RDivInt(SumAll(Mul(d, d), Rows(d)), Size(d))

\* Mutant: the factor 2 is missing.
MSEDlossNoTwo(values, expected) ==
    LET d == Sub(values, expected)
    IN IF d = Err THEN Err
       ELSE [i \in 1..Rows(d) |-> [j \in 1..Cols(d) |-> RDivInt(d[i][j], Size(values))]]

\* 2*(values - expected)/values.size
MSEDloss(values, expected) ==
    LET d == Sub(values, expected)
    IN IF d = Err THEN Err
       ELSE [i \in 1..Rows(d) |-> [j \in 1..Cols(d) |->
                RDivInt(RMul(<<2, 1>>, d[i][j]), Size(values))]]

\* ------------------------------------------------------------- layers
\* The values Layer.__init__ draws for W (outs x ins) and b (outs x 1).  The
\* draw is random; the model offers two fixed draws.
create_weight_matrix(nrows, ncols, draw) ==
    [i \in 1..nrows |-> [j \in 1..ncols |->
        IF draw = "A"
        THEN (IF nrows # ncols \/ i = j THEN <<1, 1>> ELSE <<0, 1>>)
        ELSE <<i - 2 * j + 2, 1>>]]

create_bias_vector(length, draw) ==
    [i \in 1..length |-> <<IF draw = "A" THEN <<0, 1>> ELSE <<1 - i, 1>>>>]

Layer(ins, outs, act, draw) ==
    [ins |-> ins, outs |-> outs, act_function |-> act,
     W |-> create_weight_matrix(outs, ins, draw),
     b |-> create_bias_vector(outs, draw)]

\* Mutant: the derivative is applied in place of the activation function.
LayerForwardDf(layer, x) == ActDf(layer.act_function, Add(Dot(layer.W, x), layer.b))

\* Layer.forward_pass
LayerForward(layer, x) == ActF(layer.act_function, Add(Dot(layer.W, x), layer.b))

\* ------------------------------------------------------------ network
\* Mutant: the loop compares the input widths of the two layers.
RECURSIVE InitRaisesIns(_, _)
InitRaisesIns(ls, k) ==
    IF k > Len(ls) - 1 THEN FALSE
    ELSE IF ls[k].ins # ls[k + 1].ins THEN TRUE
    ELSE InitRaisesIns(ls, k + 1)

\* The compatibility loop of NeuralNetwork.__init__ from pair k on: TRUE when
\* it raises ValueError.
RECURSIVE InitRaises(_, _)
InitRaises(ls, k) ==
    IF k > Len(ls) - 1 THEN FALSE
    ELSE IF ls[k].outs # ls[k + 1].ins THEN TRUE
    ELSE InitRaises(ls, k + 1)

\* NeuralNetwork.forward_pass over layers k..Len(ls).
RECURSIVE ForwardFrom(_, _, _)
ForwardFrom(ls, k, out) ==
    IF k > Len(ls) THEN out ELSE ForwardFrom(ls, k + 1, LayerForward(ls[k], out))

NetForward(ls, x) == ForwardFrom(ls, 1, x)

\* ---------------------------------------------------- the train call
\* The local state of one train call: the arguments, the list xs, the
\* gradient dx, the number of backward iterations done, whether it raised.
NewFrame(x, t) == [x |-> x, t |-> t, xs |-> <<x>>, dx |-> Err, k |-> 0, raised |-> FALSE]

Raise(f) == [f EXCEPT !.raised = TRUE]

\* One iteration of the forward loop: xs.append(layer.forward_pass(xs[-1])).
FwdStep(ls, f) ==
    LET out == LayerForward(ls[Len(f.xs)], f.xs[Len(f.xs)])
    IN IF out = Err THEN Raise(f) ELSE [f EXCEPT !.xs = Append(f.xs, out)]

\* dx = self._loss_function.dloss(xs.pop(), t)
SeedStep(f) ==
    LET out == f.xs[Len(f.xs)]
        rest == SubSeq(f.xs, 1, Len(f.xs) - 1)
        dx == MSEDloss(out, f.t)
    IN IF dx = Err THEN Raise([f EXCEPT !.xs = rest])
       ELSE [f EXCEPT !.xs = rest, !.dx = dx]

\* The pair the backward loop's iteration k (1, 2, ...) takes from
\* zip(self._layers[::-1], xs[::-1]): the layer's index and its input.
\* Mutant: the layers are taken in forward order.
BwdLayerForward(ls, f, k) == k

BwdLayer(ls, f, k) == Len(ls) - k + 1
BwdInput(ls, f, k) == f.xs[Len(f.xs) - k + 1]

\* The derivatives of one backward iteration, from the layer as it is now.
\* y = np.dot(layer._W, x) + layer._b; db = layer.act_function.df(y) * dx
GradDb(layer, x, dx) ==
    LET y == Add(Dot(layer.W, x), layer.b)
    IN Mul(ActDf(layer.act_function, y), dx)

\* dx = np.dot(layer._W.T, db)
GradDx(layer, db) == Dot(Transpose(layer.W), db)

\* dW = np.dot(db, x.T)
GradDW(db, x) == Dot(db, Transpose(x))

BwdGrads(layer, x, dx) ==
    LET db == GradDb(layer, x, dx)
    IN [db |-> db, dx |-> GradDx(layer, db), dW |-> GradDW(db, x)]

\* Mutant: the gradient handed to the previous layer is computed from the
\* weights after their update.
BwdStepAfter(ls, f, rate) ==
    LET i == BwdLayer(ls, f, f.k + 1)
        x == BwdInput(ls, f, f.k + 1)
        g == BwdGrads(ls[i], x, f.dx)
        W2 == ISub(ls[i].W, Scale(rate, g.dW))
        b2 == ISub(ls[i].b, Scale(rate, g.db))
    IN IF g.db = Err \/ g.dx = Err \/ g.dW = Err \/ W2 = Err
       THEN [ls |-> ls, f |-> Raise(f), i |-> i, x |-> x, wrote |-> <<>>]
       ELSE IF b2 = Err
       THEN [ls |-> [ls EXCEPT ![i].W = W2], f |-> Raise(f), i |-> i, x |-> x,
             wrote |-> <<"W">>]
       ELSE [ls |-> [ls EXCEPT ![i].W = W2, ![i].b = b2],
             f |-> [f EXCEPT !.dx = Dot(Transpose(W2), g.db), !.k = f.k + 1],
             i |-> i, x |-> x, wrote |-> <<"W", "b">>]

\* One iteration of the backward loop.  A statement that raises ends the call
\* with the writes made so far kept.
BwdStep(ls, f, rate) ==
    LET i == BwdLayer(ls, f, f.k + 1)
        x == BwdInput(ls, f, f.k + 1)
        g == BwdGrads(ls[i], x, f.dx)
        W2 == ISub(ls[i].W, Scale(rate, g.dW))
        b2 == ISub(ls[i].b, Scale(rate, g.db))
    IN IF g.db = Err \/ g.dx = Err \/ g.dW = Err \/ W2 = Err
       THEN [ls |-> ls, f |-> Raise(f), i |-> i, x |-> x, wrote |-> <<>>]
       ELSE IF b2 = Err
       THEN [ls |-> [ls EXCEPT ![i].W = W2], f |-> Raise(f), i |-> i, x |-> x,
             wrote |-> <<"W">>]
       ELSE [ls |-> [ls EXCEPT ![i].W = W2, ![i].b = b2],
             f |-> [f EXCEPT !.dx = g.dx, !.k = f.k + 1], i |-> i, x |-> x,
             wrote |-> <<"W", "b">>]

\* The number of iterations of the backward loop (zip stops at the shorter).
BwdCount(ls, f) == IF Len(ls) < Len(f.xs) THEN Len(ls) ELSE Len(f.xs)

\* The whole train call as a function of the layers and the arguments.
RECURSIVE RunFwd(_, _)
RunFwd(ls, f) ==
    IF f.raised \/ Len(f.xs) = Len(ls) + 1 THEN f ELSE RunFwd(ls, FwdStep(ls, f))

RECURSIVE RunBwd(_, _, _)
RunBwd(ls, f, rate) ==
    IF f.raised \/ f.k = BwdCount(ls, f) THEN [ls |-> ls, raised |-> f.raised]
    ELSE LET r == BwdStep(ls, f, rate) IN RunBwd(r.ls, r.f, rate)

Train(ls, x, t, rate) ==
    LET f == RunFwd(ls, NewFrame(x, t))
    IN IF f.raised THEN [ls |-> ls, raised |-> TRUE]
       ELSE RunBwd(ls, SeedStep(f), rate)

\* -------------------------------------------------------------- state
VARIABLES
    layers,       \* the Layer objects, in the order given to NeuralNetwork
    lr,           \* NeuralNetwork.lr
    net,          \* "none": not constructed; "ok"; "error": __init__ raised
    pc,           \* where the train call in progress is: idle, fwd, seed, bwd
    fr,           \* the local state of the train call in progress
    call,         \* the last operation called and its arguments
    ret,          \* what it returned (Err: nothing, or it raised)
    raised,       \* whether it raised
    layers_init,  \* history: the layers as constructed
    layers0,      \* history: the layers when the last train call began
    writes,       \* history: the backward iterations of the last train call
    hist,         \* history: the train calls that returned, in order
    ncalls,       \* history: the number of train calls made
    cfr, cpc, cg, \* two concurrent train calls: frames, positions, gradients
    cseen,        \* history: what each of the two has written, and whether it
                  \* has read a parameter the other had written
    dfAlpha, dfX, dfOut  \* an activation function applied to an array

netVars == <<layers, lr, net, pc, fr, call, ret, raised, layers_init, layers0, writes,
            hist, ncalls>>
concVars == <<cfr, cpc, cg, cseen>>
dfVars == <<dfAlpha, dfX, dfOut>>
vars == <<netVars, concVars, dfVars>>

\* ------------------------------------------------------------- inputs
IntMat(m) == [i \in 1..Len(m) |-> [j \in 1..Len(m[i]) |-> <<m[i][j], 1>>]]

Widths == {1, 2}

Shapes == [ins : Widths, outs : Widths]

RECURSIVE SeqsUpTo(_, _)
SeqsUpTo(S, n) ==
    IF n = 0 THEN {<<>>}
    ELSE LET shorter == SeqsUpTo(S, n - 1)
         IN shorter \cup {Append(q, e) : q \in {r \in shorter : Len(r) = n - 1}, e \in S}

\* The activation function and the draw of the parameters of a network.
Styles == {[act |-> IdAct, draw |-> "A"],
           [act |-> IdAct, draw |-> "B"],
           [act |-> LeakyReLU(<<1, 2>>), draw |-> "B"]}

LearningRates == {<<1, 10>>}

\* Arguments x of forward_pass and train: columns of one and two rows, and a
\* two-column array.
XS == {IntMat(<<<<1>>, <<2>>>>), IntMat(<<<<2>>, <<-1>>>>), IntMat(<<<<1>>>>),
       IntMat(<<<<1, 0>>, <<2, 1>>>>)}

\* Arguments t of train and loss.
TS == {IntMat(<<<<5>>>>), IntMat(<<<<1>>, <<0>>>>), IntMat(<<<<1>>, <<2>>, <<3>>>>)}

InRange(e) == Abs(e[1]) <= ParamCap /\ e[2] <= ParamCap

SmallLayer(layer) ==
    /\ \A r \in 1..Rows(layer.W) : \A c \in 1..Cols(layer.W) : InRange(layer.W[r][c])
    /\ \A r \in 1..Rows(layer.b) : InRange(layer.b[r][1])

Small(ls) == \A i \in 1..Len(ls) : SmallLayer(ls[i])

NoCall == [op |-> "none", x |-> Err, t |-> Err]
NoFrame == NewFrame(Err, Err)

\* ------------------------------------------------------------ actions
NetInit ==
    /\ \E shape \in SeqsUpTo(Shapes, MaxLayers), style \in Styles :
          layers = [i \in 1..Len(shape) |->
                       Layer(shape[i].ins, shape[i].outs, style.act, style.draw)]
    /\ lr \in LearningRates
    /\ net = "none"
    /\ pc = "idle"
    /\ fr = NoFrame
    /\ call = NoCall
    /\ ret = Err
    /\ raised = FALSE
    /\ layers_init = layers
    /\ layers0 = layers
    /\ writes = <<>>
    /\ hist = <<>>
    /\ ncalls = 0

\* NeuralNetwork.__init__
Construct ==
    /\ net = "none"
    /\ net' = IF InitRaises(layers, 1) THEN "error" ELSE "ok"
    /\ raised' = InitRaises(layers, 1)
    /\ call' = [op |-> "init", x |-> Err, t |-> Err]
    /\ UNCHANGED <<layers, lr, pc, fr, ret, layers_init, layers0, writes, hist, ncalls>>

Callable == net = "ok" /\ pc = "idle"

\* Mutant: the last layer keeps the output in its bias.
ForwardPassKeeping(x) ==
    /\ Callable /\ Small(layers)
    /\ call' = [op |-> "forward_pass", x |-> x, t |-> Err]
    /\ ret' = NetForward(layers, x)
    /\ raised' = (ret' = Err)
    /\ layers' = IF ret' = Err \/ Len(layers) = 0 THEN layers
                 ELSE [layers EXCEPT ![Len(layers)].b = ret']
    /\ UNCHANGED <<lr, net, pc, fr, layers_init, layers0, writes, hist, ncalls>>

\* NeuralNetwork.forward_pass
ForwardPass(x) ==
    /\ Callable /\ Small(layers)
    /\ call' = [op |-> "forward_pass", x |-> x, t |-> Err]
    /\ ret' = NetForward(layers, x)
    /\ raised' = (ret' = Err)
    /\ UNCHANGED <<layers, lr, net, pc, fr, layers_init, layers0, writes, hist, ncalls>>

\* Layer.forward_pass, called on layer i of the network
LayerForwardPass(i, x) ==
    /\ Callable /\ Small(layers)
    /\ call' = [op |-> "layer_forward_pass", x |-> x, t |-> i]
    /\ ret' = LayerForward(layers[i], x)
    /\ raised' = (ret' = Err)
    /\ UNCHANGED <<layers, lr, net, pc, fr, layers_init, layers0, writes, hist, ncalls>>

\* NeuralNetwork.loss
Loss(values, expected) ==
    /\ Callable
    /\ call' = [op |-> "loss", x |-> values, t |-> expected]
    /\ ret' = MSELossValue(values, expected)
    /\ raised' = (ret' = Err)
    /\ UNCHANGED <<layers, lr, net, pc, fr, layers_init, layers0, writes, hist, ncalls>>

\* train returns or raises.
Finish(f, ok) ==
    /\ pc' = "idle"
    /\ fr' = NoFrame
    /\ raised' = ~ok
    /\ hist' = IF ok THEN Append(hist, [x |-> f.x, t |-> f.t]) ELSE hist

\* NeuralNetwork.train: xs = [x]
TrainBegin(x, t) ==
    /\ Callable /\ Small(layers)
    /\ ncalls < MaxTrains
    /\ ncalls' = ncalls + 1
    /\ fr' = NewFrame(x, t)
    /\ pc' = IF Len(layers) = 0 THEN "seed" ELSE "fwd"
    /\ call' = [op |-> "train", x |-> x, t |-> t]
    /\ ret' = Err
    /\ raised' = FALSE
    /\ layers0' = layers
    /\ writes' = <<>>
    /\ UNCHANGED <<layers, lr, net, layers_init, hist>>

\* One iteration of the forward loop.
TrainFwd ==
    /\ pc = "fwd"
    /\ LET f == FwdStep(layers, fr)
       IN IF f.raised THEN Finish(f, FALSE)
          ELSE /\ fr' = f
               /\ pc' = IF Len(f.xs) = Len(layers) + 1 THEN "seed" ELSE "fwd"
               /\ UNCHANGED <<raised, hist>>
    /\ UNCHANGED <<layers, lr, net, call, ret, layers_init, layers0, writes, ncalls>>

\* The gradient of the loss.
TrainSeed ==
    /\ pc = "seed"
    /\ LET f == SeedStep(fr)
       IN IF f.raised THEN Finish(f, FALSE)
          ELSE IF BwdCount(layers, f) = 0 THEN Finish(f, TRUE)
          ELSE /\ fr' = f
               /\ pc' = "bwd"
               /\ UNCHANGED <<raised, hist>>
    /\ UNCHANGED <<layers, lr, net, call, ret, layers_init, layers0, writes, ncalls>>

\* One iteration of the backward loop.
TrainBwd ==
    /\ pc = "bwd"
    /\ LET r == BwdStep(layers, fr, lr)
       IN /\ layers' = r.ls
          /\ writes' = Append(writes, [i |-> r.i, x |-> r.x, wrote |-> r.wrote])
          /\ IF r.f.raised THEN Finish(r.f, FALSE)
             ELSE IF r.f.k = BwdCount(layers, r.f) THEN Finish(r.f, TRUE)
             ELSE /\ fr' = r.f
                  /\ pc' = "bwd"
                  /\ UNCHANGED <<raised, hist>>
    /\ UNCHANGED <<lr, net, call, ret, layers_init, layers0, ncalls>>

\* The values handed to loss: what forward_pass just returned, or a constant.
LossValues == {IntMat(<<<<3>>>>)} \cup
              (IF call.op = "forward_pass" /\ ret # Err THEN {ret} ELSE {})

Init ==
    /\ NetInit
    /\ cfr = <<>> /\ cpc = <<>> /\ cg = <<>> /\ cseen = <<>>
    /\ dfAlpha = <<0, 1>> /\ dfX = Err /\ dfOut = Err

Next ==
    \/ Construct /\ UNCHANGED <<concVars, dfVars>>
    \/ (\E x \in XS : ForwardPass(x)) /\ UNCHANGED <<concVars, dfVars>>
    \/ (\E i \in 1..Len(layers), x \in XS : LayerForwardPass(i, x))
          /\ UNCHANGED <<concVars, dfVars>>
    \/ (\E v \in LossValues, e \in TS : Loss(v, e)) /\ UNCHANGED <<concVars, dfVars>>
    \/ (\E x \in XS, t \in TS : TrainBegin(x, t)) /\ UNCHANGED <<concVars, dfVars>>
    \/ TrainFwd /\ UNCHANGED <<concVars, dfVars>>
    \/ TrainSeed /\ UNCHANGED <<concVars, dfVars>>
    \/ TrainBwd /\ UNCHANGED <<concVars, dfVars>>

Spec == Init /\ [][Next]_vars

\* ------------------------------------- two interleaved train calls
\* Two train calls run on one network at once.  A statement of train is one
\* step; the statements of the two calls interleave in every order.  A call
\* reads a layer only while the layer's parameters are within ParamCap.
MaxConcLayers == 2

Calls == {1, 2}
Other(p) == 3 - p

NoGrads == [db |-> Err, dx |-> Err, dW |-> Err]

ConcInit ==
    /\ \E shape \in SeqsUpTo(Shapes, MaxConcLayers), style \in Styles :
          /\ Len(shape) > 0
          /\ layers = [i \in 1..Len(shape) |->
                          Layer(shape[i].ins, shape[i].outs, style.act, style.draw)]
    /\ ~InitRaises(layers, 1)
    /\ lr \in LearningRates
    /\ net = "ok"
    /\ pc = "idle" /\ fr = NoFrame /\ call = NoCall /\ ret = Err /\ raised = FALSE
    /\ layers_init = layers /\ layers0 = layers /\ writes = <<>>
    /\ hist = <<>> /\ ncalls = 0
    /\ \E x1 \in XS, t1 \in TS, x2 \in XS, t2 \in TS :
          /\ ~Train(layers, x1, t1, lr).raised
          /\ ~Train(layers, x2, t2, lr).raised
          /\ cfr = <<NewFrame(x1, t1), NewFrame(x2, t2)>>
    /\ cpc = <<"fwd", "fwd">>
    /\ cg = <<NoGrads, NoGrads>>
    /\ cseen = <<[wrote |-> {}, stale |-> FALSE], [wrote |-> {}, stale |-> FALSE]>>

\* Call p reads the parameters in `what` of layer i.
Reads(p, i, what) ==
    [cseen EXCEPT ![p].stale = @ \/ \E w \in what : <<i, w>> \in cseen[Other(p)].wrote]

\* Call p writes parameter w of layer i.
Writes(p, i, w) == [cseen EXCEPT ![p].wrote = @ \cup {<<i, w>>}]

\* xs.append(layer.forward_pass(xs[-1]))
ConcFwd(p) ==
    /\ cpc[p] = "fwd"
    /\ SmallLayer(layers[Len(cfr[p].xs)])
    /\ LET f == FwdStep(layers, cfr[p])
       IN /\ cfr' = [cfr EXCEPT ![p] = f]
          /\ cpc' = [cpc EXCEPT ![p] = IF Len(f.xs) = Len(layers) + 1 THEN "seed" ELSE "fwd"]
    /\ cseen' = Reads(p, Len(cfr[p].xs), {"W", "b"})
    /\ UNCHANGED <<netVars, cg>>

\* dx = self._loss_function.dloss(xs.pop(), t)
ConcSeed(p) ==
    /\ cpc[p] = "seed"
    /\ cfr' = [cfr EXCEPT ![p] = SeedStep(cfr[p])]
    /\ cpc' = [cpc EXCEPT ![p] = "db"]
    /\ UNCHANGED <<netVars, cg, cseen>>

ConcLayer(p) == BwdLayer(layers, cfr[p], cfr[p].k + 1)
ConcInput(p) == BwdInput(layers, cfr[p], cfr[p].k + 1)

\* y = np.dot(layer._W, x) + layer._b; db = layer.act_function.df(y) * dx
ConcDb(p) ==
    /\ cpc[p] = "db"
    /\ SmallLayer(layers[ConcLayer(p)])
    /\ cg' = [cg EXCEPT ![p].db = GradDb(layers[ConcLayer(p)], ConcInput(p), cfr[p].dx)]
    /\ cpc' = [cpc EXCEPT ![p] = "dx"]
    /\ cseen' = Reads(p, ConcLayer(p), {"W", "b"})
    /\ UNCHANGED <<netVars, cfr>>

\* dx = np.dot(layer._W.T, db); dW = np.dot(db, x.T)
ConcDx(p) ==
    /\ cpc[p] = "dx"
    /\ SmallLayer(layers[ConcLayer(p)])
    /\ cg' = [cg EXCEPT ![p].dx = GradDx(layers[ConcLayer(p)], cg[p].db),
                        ![p].dW = GradDW(cg[p].db, ConcInput(p))]
    /\ cpc' = [cpc EXCEPT ![p] = "writeW"]
    /\ cseen' = Reads(p, ConcLayer(p), {"W"})
    /\ UNCHANGED <<netVars, cfr>>

\* layer._W -= self.lr * dW
ConcWriteW(p) ==
    /\ cpc[p] = "writeW"
    /\ layers' = [layers EXCEPT ![ConcLayer(p)].W = ISub(@, Scale(lr, cg[p].dW))]
    /\ cpc' = [cpc EXCEPT ![p] = "writeB"]
    /\ cseen' = Writes(p, ConcLayer(p), "W")
    /\ UNCHANGED <<lr, net, pc, fr, call, ret, raised, layers_init, layers0, writes,
                   hist, ncalls, cfr, cg>>

\* layer._b -= self.lr * db, and the loop goes on to the layer before
ConcWriteB(p) ==
    /\ cpc[p] = "writeB"
    /\ layers' = [layers EXCEPT ![ConcLayer(p)].b = ISub(@, Scale(lr, cg[p].db))]
    /\ cfr' = [cfr EXCEPT ![p].dx = cg[p].dx, ![p].k = @ + 1]
    /\ cpc' = [cpc EXCEPT ![p] = IF cfr[p].k + 1 = BwdCount(layers, cfr[p])
                                 THEN "done" ELSE "db"]
    /\ cg' = [cg EXCEPT ![p] = NoGrads]
    /\ cseen' = Writes(p, ConcLayer(p), "b")
    /\ UNCHANGED <<lr, net, pc, fr, call, ret, raised, layers_init, layers0, writes,
                   hist, ncalls>>

InitConc == ConcInit /\ dfAlpha = <<0, 1>> /\ dfX = Err /\ dfOut = Err

NextConc ==
    \/ (\E p \in Calls : ConcFwd(p)) /\ UNCHANGED dfVars
    \/ (\E p \in Calls : ConcSeed(p)) /\ UNCHANGED dfVars
    \/ (\E p \in Calls : ConcDb(p)) /\ UNCHANGED dfVars
    \/ (\E p \in Calls : ConcDx(p)) /\ UNCHANGED dfVars
    \/ (\E p \in Calls : ConcWriteW(p)) /\ UNCHANGED dfVars
    \/ (\E p \in Calls : ConcWriteB(p)) /\ UNCHANGED dfVars

SpecConc == InitConc /\ [][NextConc]_vars

\* ------------------------------------ an activation function applied
Alphas == {<<-1, 2>>, <<0, 1>>, <<1, 10>>, <<1, 2>>, <<1, 1>>, <<2, 1>>}

DfElems == {<<-2, 1>>, <<-1, 2>>, <<0, 1>>, <<1, 2>>, <<3, 1>>}

\* Columns of one and of two rows.
DfInputs == {<<<<e>>>> : e \in DfElems} \cup {<<<<d>>, <<e>>>> : d, e \in DfElems}

\* LeakyReLU.__init__
LeakyReLUInit(leaky_param) ==
    /\ dfAlpha = Err
    /\ dfAlpha' = leaky_param
    /\ UNCHANGED <<dfX, dfOut>>

\* ReLU.__init__
ReLUInit ==
    /\ dfAlpha = Err
    /\ dfAlpha' = ReLU.alpha
    /\ UNCHANGED <<dfX, dfOut>>

\* LeakyReLU.df
Df(x) ==
    /\ dfAlpha # Err
    /\ dfX' = x
    /\ dfOut' = LeakyDf(dfAlpha, x)
    /\ UNCHANGED dfAlpha

InitDf ==
    /\ dfAlpha = Err /\ dfX = Err /\ dfOut = Err
    /\ layers = <<>> /\ lr = <<1, 10>> /\ net = "none"
    /\ pc = "idle" /\ fr = NoFrame /\ call = NoCall /\ ret = Err /\ raised = FALSE
    /\ layers_init = <<>> /\ layers0 = <<>> /\ writes = <<>>
    /\ hist = <<>> /\ ncalls = 0
    /\ cfr = <<>> /\ cpc = <<>> /\ cg = <<>> /\ cseen = <<>>

NextDf ==
    \/ (\E a \in Alphas : LeakyReLUInit(a)) /\ UNCHANGED <<netVars, concVars>>
    \/ ReLUInit /\ UNCHANGED <<netVars, concVars>>
    \/ (\E x \in DfInputs : Df(x)) /\ UNCHANGED <<netVars, concVars>>

SpecDf == InitDf /\ [][NextDf]_vars

\* ------------------------------------------------------------- claims
Done == call.op = "train" /\ pc = "idle"
Returned == Done /\ ~raised

Mismatch(ls) == \E i \in 1..(Len(ls) - 1) : ls[i].outs # ls[i + 1].ins

\* C1: construction raises exactly when some adjacent pair of layers has
\* earlier.outs # later.ins, and until construction has succeeded no
\* forward_pass, loss or train call has run.
C1_ConstructionChecksWidths ==
    /\ net # "none" => (net = "error" <=> Mismatch(layers))
    /\ net = "error" => raised /\ call.op = "init"
    /\ net # "ok" => call.op \in {"none", "init"} /\ ncalls = 0 /\ pc = "idle"

C1_Witness == net = "error" /\ Len(layers) = 2 /\ layers[1].outs = 1 /\ layers[2].ins = 2

\* The quantities of one training step, from the layers ls as they were before
\* the call: the input X of layer i, its pre-activation Y and its bias gradient.
RECURSIVE RefX(_, _, _)
RefY(ls, x, i) == Add(Dot(ls[i].W, RefX(ls, x, i)), ls[i].b)
RefX(ls, x, i) == IF i = 1 THEN x ELSE ActF(ls[i - 1].act_function, RefY(ls, x, i - 1))

RECURSIVE RefDb(_, _, _, _)
RefDb(ls, x, t, i) ==
    Mul(ActDf(ls[i].act_function, RefY(ls, x, i)),
        IF i = Len(ls)
        THEN MSEDloss(ActF(ls[i].act_function, RefY(ls, x, i)), t)
        ELSE Dot(Transpose(ls[i + 1].W), RefDb(ls, x, t, i + 1)))

\* C2: after a train call that returned, every layer i has
\* W = W_old - lr * (db_i * x_i^T) and b = b_old - lr * db_i, all of the right
\* side computed from the parameters as they were before the call.
C2_UpdateFromOldParameters ==
    Returned =>
        \A i \in 1..Len(layers) :
            /\ layers[i].W = Sub(layers0[i].W,
                   Scale(lr, Dot(RefDb(layers0, call.x, call.t, i),
                                 Transpose(RefX(layers0, call.x, i)))))
            /\ layers[i].b = Sub(layers0[i].b, Scale(lr, RefDb(layers0, call.x, call.t, i)))

C2_Witness == Returned /\ Len(layers) = 2 /\ layers[1].W # layers0[1].W
              /\ layers[2].W # layers0[2].W /\ layers[1].act_function.kind = "LeakyReLU"

\* The network of the end-to-end scenario.
ScenarioNet == <<Layer(2, 2, IdAct, "A"), Layer(2, 1, IdAct, "A")>>
X12 == IntMat(<<<<1>>, <<2>>>>)
T5 == IntMat(<<<<5>>>>)
AfterScenarioTrain ==
    /\ layers_init = ScenarioNet /\ lr = <<1, 10>>
    /\ pc = "idle" /\ ncalls = 1 /\ hist = <<[x |-> X12, t |-> T5]>>
LossOn(ls) == MSELossValue(NetForward(ls, X12), T5)

\* C3 as stated: in the scenario forward_pass([1,2]) is [3], and after one
\* train([1,2],[5]) the loss on the same example is strictly smaller.
C3_LossDecreases ==
    /\ (layers = ScenarioNet /\ call.op = "forward_pass" /\ call.x = X12)
          => ret = IntMat(<<<<3>>>>)
    /\ AfterScenarioTrain => RLess(LossOn(layers), LossOn(layers_init))

\* C3 amended: in the scenario forward_pass([1,2]) is [3], and after one
\* train([1,2],[5]) the loss on the same example is 65.2864, strictly larger
\* than the 4 it was before.
C3_LossIncreases ==
    /\ (layers = ScenarioNet /\ call.op = "forward_pass" /\ call.x = X12)
          => ret = IntMat(<<<<3>>>>)
    /\ AfterScenarioTrain =>
          /\ LossOn(layers_init) = <<4, 1>>
          /\ LossOn(layers) = <<40804, 625>>
          /\ RLess(LossOn(layers_init), LossOn(layers))

C3_Witness == AfterScenarioTrain /\ call.op = "forward_pass" /\ call.x = X12
              /\ ret = <<<<<<327, 25>>>>>>

\* C4: forward_pass (of a layer, of the network) and loss leave the layers and
\* the learning rate as they were, and the layers change only inside train.
C4_OnlyTrainWrites ==
    [][/\ call'.op \in {"forward_pass", "layer_forward_pass", "loss"}
          => layers' = layers /\ lr' = lr
       /\ layers' # layers => call.op = "train" /\ pc = "bwd"]_vars

C4_Witness == call.op = "forward_pass" /\ ret # Err /\ Len(hist) = 1 /\ Len(layers) = 2

Identity(n) == [i \in 1..n |-> [j \in 1..n |-> IF i = j THEN <<1, 1>> ELSE <<0, 1>>]]
Zeros(n) == [i \in 1..n |-> <<<<0, 1>>>>]
IsIdentityNet ==
    /\ Len(layers) = 1 /\ layers[1].act_function.kind = "Id"
    /\ layers[1].W = Identity(layers[1].ins) /\ layers[1].b = Zeros(layers[1].ins)

\* C5: a network of one identity-activation layer with W the identity and
\* b zero returns every column x of the layer's width unchanged.
C5_IdentityNetwork ==
    (/\ IsIdentityNet /\ call.op = "forward_pass"
     /\ Rows(call.x) = layers[1].ins /\ Cols(call.x) = 1) => ret = call.x

C5_Witness == IsIdentityNet /\ call.op = "forward_pass" /\ call.x = X12 /\ ret = X12

\* C7: no parameter is written before the forward sweep has recorded the
\* num_layers + 1 values; the backward iterations take the layers last to
\* first, each with the input recorded for it; a call that returns has updated
\* W and b of every layer exactly once.
C7_SweepOrder ==
    /\ pc \in {"fwd", "seed"} => layers = layers0 /\ writes = <<>>
    /\ pc = "seed" => Len(fr.xs) = Len(layers) + 1
    /\ call.op = "train" => \A j \in 1..Len(writes) :
          /\ writes[j].i = Len(layers) - j + 1
          /\ writes[j].x = RefX(layers0, call.x, writes[j].i)
          /\ pc = "bwd" => writes[j].x = fr.xs[writes[j].i]
    /\ Returned =>
          /\ Len(writes) = Len(layers)
          /\ \A j \in 1..Len(writes) : writes[j].wrote = <<"W", "b">>

C7_Witness == Returned /\ Len(layers) = 2 /\ Len(writes) = 2
              /\ writes[1].i = 2 /\ writes[2].i = 1 /\ writes[1].x # writes[2].x

\* C8: the order of the examples matters: for every network of the model with
\* at least one layer, two different examples trained one after the other
\* leave other parameters than the same two trained in the other order from
\* the same starting parameters.
C8_Reversed ==
    LET first == Train(layers_init, hist[2].x, hist[2].t, lr)
    IN Train(first.ls, hist[1].x, hist[1].t, lr)

C8_OrderSensitive ==
    (/\ pc = "idle" /\ ncalls = 2 /\ Len(hist) = 2 /\ hist[1] # hist[2]
     /\ Len(layers) > 0
     /\ Small(Train(layers_init, hist[2].x, hist[2].t, lr).ls))
        => layers # C8_Reversed.ls

C8_Witness == /\ pc = "idle" /\ ncalls = 2 /\ Len(hist) = 2 /\ hist[1] # hist[2]
              /\ Small(Train(layers_init, hist[2].x, hist[2].t, lr).ls)
              /\ ~C8_Reversed.raised /\ layers # C8_Reversed.ls

\* C10 as stated: a train call that raises has modified no W and no b.
C10_FailingTrainWritesNothing == (Done /\ raised) => layers = layers0

\* C6 as stated: LeakyReLU.df is 1 where x > 0 and alpha elsewhere, for every
\* configured alpha.
C6_DfIsOneOrAlpha ==
    dfOut # Err =>
        \A i \in 1..Rows(dfX) :
            dfOut[i][1] = IF RLess(<<0, 1>>, dfX[i][1]) THEN <<1, 1>> ELSE dfAlpha

ConcDone == \A p \in Calls : cpc[p] = "done"
SerialFirst(p) == Train(layers_init, cfr[p].x, cfr[p].t, lr).ls
Serial(p) == Train(SerialFirst(p), cfr[Other(p)].x, cfr[Other(p)].t, lr).ls
SerialInRange == Small(SerialFirst(1)) /\ Small(SerialFirst(2))

\* C9: two train calls interleaved so that neither reads a parameter the
\* other has written leave parameters that neither serial order of the two
\* calls leaves.
C9_InterleavingNotSerial ==
    (ConcDone /\ ~cseen[1].stale /\ ~cseen[2].stale /\ SerialInRange)
        => layers # Serial(1) /\ layers # Serial(2)

C9_Witness == /\ ConcDone /\ ~cseen[1].stale /\ ~cseen[2].stale /\ SerialInRange
              /\ cfr[1].x # cfr[2].x
              /\ layers # Serial(1) /\ layers # Serial(2)

====
